---------------------------- MODULE Spec2Model ----------------------------
(***************************************************************************)
(* Land-cover extraction and area accounting of congestion_features.py:    *)
(* the Overpass fetch with its retry loop, the building / road / water     *)
(* collectors, road clipping and the metrics record; and the congestion    *)
(* score app.py derives from that record.                                  *)
(*                                                                         *)
(* Units.  Road widths are kept in centimetres, lengths in decimetres and  *)
(* areas in thousandths of a square metre (1 dm x 1 cm), so that the       *)
(* code's floating-point products of the modelled inputs are exact         *)
(* integers.  Tag values the code parses (width, lanes, building) are      *)
(* sequences of one-character strings; tag values the code only compares   *)
(* (highway, natural, waterway, name) are plain strings.                   *)
(***************************************************************************)
EXTENDS Integers, Sequences, FiniteSets, TLC

VARIABLES lat, lng, radius, provider, pc, round, ep, attempts, slept,
          okCount, data, fwd, buf, buildings_with_type, roads_raw,
          water_area, water_polygons, road_details, road_area_total,
          metrics, error, effective_land_area, used_area_ratio,
          congestion_score, level

vars == <<lat, lng, radius, provider, pc, round, ep, attempts, slept,
          okCount, data, fwd, buf, buildings_with_type, roads_raw,
          water_area, water_polygons, road_details, road_area_total,
          metrics, error, effective_land_area, used_area_ratio,
          congestion_score, level>>

-----------------------------------------------------------------------------
(* Python values *)

NoneV == [isNone |-> TRUE]
Some(v) == [val |-> v]
EmptyDict == [k \in {} |-> 0]
Get(d, k, default) == IF k \in DOMAIN d THEN d[k] ELSE default
Max(a, b) == IF a >= b THEN a ELSE b

-----------------------------------------------------------------------------
(* str methods used on tag values *)

Digits == {"0", "1", "2", "3", "4", "5", "6", "7", "8", "9"}
DigitVal(c) ==
    CASE c = "0" -> 0 [] c = "1" -> 1 [] c = "2" -> 2 [] c = "3" -> 3
      [] c = "4" -> 4 [] c = "5" -> 5 [] c = "6" -> 6 [] c = "7" -> 7
      [] c = "8" -> 8 [] c = "9" -> 9

IsSpace(c) == c = " "

\* str.lower() on the letters the modelled tag values use
LowerChar(c) ==
    CASE c = "Y" -> "y" [] c = "E" -> "e" [] c = "S" -> "s"
      [] c = "H" -> "h" [] c = "T" -> "t" [] c = "R" -> "r" [] c = "U" -> "u"
      [] OTHER -> c
Lower(s) == [i \in 1..Len(s) |-> LowerChar(s[i])]

RECURSIVE LStrip(_)
LStrip(s) == IF s # <<>> /\ IsSpace(Head(s)) THEN LStrip(Tail(s)) ELSE s
RECURSIVE RStrip(_)
RStrip(s) ==
    IF s # <<>> /\ IsSpace(s[Len(s)]) THEN RStrip(SubSeq(s, 1, Len(s) - 1)) ELSE s
Strip(s) == RStrip(LStrip(s))

\* the characters of s up to the first whitespace
RECURSIVE TakeWord(_)
TakeWord(s) ==
    IF s = <<>> \/ IsSpace(Head(s)) THEN <<>> ELSE <<Head(s)>> \o TakeWord(Tail(s))

\* str.split()[0]: IndexError when the string holds no token
FirstToken(s) ==
    LET t == LStrip(s)
    IN  IF t = <<>> THEN [ok |-> FALSE, tok |-> <<>>]
        ELSE [ok |-> TRUE, tok |-> TakeWord(t)]

RECURSIVE DigitsValue(_, _)
DigitsValue(s, acc) ==
    IF s = <<>> THEN acc ELSE DigitsValue(Tail(s), acc * 10 + DigitVal(Head(s)))

RECURSIVE TakeDigits(_)
TakeDigits(s) ==
    IF s = <<>> \/ Head(s) \notin Digits THEN <<>>
    ELSE <<Head(s)>> \o TakeDigits(Tail(s))

\* float(tok) for decimal literals: [sign] digits [. digits] with at least one
\* digit; ValueError otherwise.  The value is in hundredths; the modelled
\* literals carry at most two fractional digits.
ParseFloat(tok) ==
    LET neg  == tok # <<>> /\ Head(tok) = "-"
        body == IF tok # <<>> /\ Head(tok) \in {"-", "+"} THEN Tail(tok) ELSE tok
        ip   == TakeDigits(body)
        rest == SubSeq(body, Len(ip) + 1, Len(body))
        hasP == rest # <<>> /\ Head(rest) = "."
        fp   == IF hasP THEN TakeDigits(Tail(rest)) ELSE <<>>
        used == Len(ip) + (IF hasP THEN 1 + Len(fp) ELSE 0)
        f2   == SubSeq(fp \o <<"0", "0">>, 1, 2)
        mag  == DigitsValue(ip, 0) * 100 + DigitsValue(f2, 0)
    IN  IF used = Len(body) /\ Len(ip) + Len(fp) >= 1 /\ Len(fp) <= 2
        THEN [ok |-> TRUE, val |-> IF neg THEN -mag ELSE mag]
        ELSE [ok |-> FALSE, val |-> 0]

\* float(str(v).split()[0]) inside try/except
LeadingNumber(s) ==
    LET t == FirstToken(s)
    IN  IF t.ok THEN ParseFloat(t.tok) ELSE [ok |-> FALSE, val |-> 0]

-----------------------------------------------------------------------------
(* CONFIG *)

OVERPASS_ENDPOINTS == <<"https://overpass-api.de/api/interpreter">>
RETRY == 3

\* metres, as in the source; the model multiplies by 100 for centimetres
DEFAULT_WIDTHS ==
    [motorway |-> 24, trunk |-> 22, primary |-> 18, secondary |-> 14,
     tertiary |-> 10, residential |-> 7, unclassified |-> 7, service |-> 6]

\* np.pi in thousandths
PiMilli == 3142

-----------------------------------------------------------------------------
(* _projector, _buffer_circle *)

\* floor((lng + 180) / 6) % 60 + 1, and the hemisphere
_projector(la, ln) ==
    [zone |-> (((ln + 180) \div 6) % 60) + 1, south |-> la < 0]

\* Point(x, y).buffer(radius_m): shapely returns an empty polygon for a
\* radius that is not positive
_buffer_circle(la, ln, radius_m) ==
    [centre |-> _projector(la, ln), radius |-> radius_m, is_empty |-> radius_m <= 0]

-----------------------------------------------------------------------------
(* _get_building_type *)

S_yes == <<"y", "e", "s">>
S_1 == <<"1">>
S_true == <<"t", "r", "u", "e">>
S_None == <<"N", "o", "n", "e">>
S_prefix == <<"b", "u", "i", "l", "d", "i", "n", "g", "=">>

\* _get_building_type without the clean-up of the value
_get_building_type_Raw(tags) ==
    LET b == Get(tags, "building", <<>>)
    IN  IF b = <<>> THEN S_None
        ELSE IF b \in {S_yes, S_1, S_true} THEN S_prefix \o S_yes
        ELSE S_prefix \o b

_get_building_type(tags) ==
    LET b == Get(tags, "building", <<>>)
    IN  IF b = <<>> THEN S_None
        ELSE LET c == Lower(Strip(b))
             IN  IF c \in {S_yes, S_1, S_true} THEN S_prefix \o S_yes
                 ELSE S_prefix \o c

-----------------------------------------------------------------------------
(* Geometry.  A point is a dict that may lack "lon" or "lat"; a coordinate  *)
(* is "num" or a value pyproj cannot transform (null).  What shapely      *)
(* from the coordinates of an element is carried by its "shape":           *)
(*   poly   Polygon(...) of the points: "valid", "repaired" (invalid, and  *)
(*          make_valid returns a valid geometry), "invalid" (still invalid *)
(*          after make_valid) or "raises";                                 *)
(*   inter  the same for poly.intersection(disk), or "empty";              *)
(*   area   inter.area;                                                    *)
(*   rawLen LineString(...).length in decimetres;                          *)
(*   segs   the lengths of the parts of line.intersection(disk), in        *)
(*          decimetres (no part: empty; several: a multi-part geometry).   *)
(***************************************************************************)

HasKeys(p) == "lon" \in DOMAIN p /\ "lat" \in DOMAIN p
Transformable(p) == p["lon"] = "num" /\ p["lat"] = "num"

\* coords = [(p["lon"], p["lat"]) for p in geom]; fwd.transform over coords
ProjectError(geom) ==
    IF \E i \in 1..Len(geom) : ~HasKeys(geom[i]) THEN "KeyError"
    ELSE IF \E i \in 1..Len(geom) : ~Transformable(geom[i]) THEN "TypeError"
    ELSE "none"

\* the vertex-count test off by one
TooFewPoints_OffByOne(el, n) ==
    "geometry" \notin DOMAIN el \/ Len(el["geometry"]) < n - 1

\* not geom or len(geom) < n
TooFewPoints(el, n) == "geometry" \notin DOMAIN el \/ Len(el["geometry"]) < n

\* poly.intersection(buf) against the disk of this request
Intersection(shape, disk) == IF disk.is_empty THEN "empty" ELSE shape.inter
ClippedParts(shape, disk) == IF disk.is_empty THEN <<>> ELSE shape.segs

RECURSIVE SumSeq(_)
SumSeq(s) == IF s = <<>> THEN 0 ELSE Head(s) + SumSeq(Tail(s))

-----------------------------------------------------------------------------
(* The collectors.  The body of each "for el in elements" loop yields      *)
(* "skip" (continue), "item" (append) or "raise" (an exception that leaves *)
(* the loop and the function).                                             *)

Skip == [kind |-> "skip"]
Raise(e) == [kind |-> "raise", err |-> e]
Item(x) == [kind |-> "item", item |-> x]

\* the list a loop has appended to, or the first exception that left it
RunLoop(steps) ==
    LET bad  == {i \in 1..Len(steps) : steps[i].kind = "raise"}
        keep == SelectSeq(steps, LAMBDA r : r.kind = "item")
    IN  IF bad # {}
        THEN [err |-> steps[CHOOSE i \in bad : \A j \in bad : i <= j].err,
              val |-> <<>>]
        ELSE [err |-> "none", val |-> [i \in 1..Len(keep) |-> keep[i].item]]

Elements(d) == Get(d, "elements", <<>>)

BuildingStep(el, disk) ==
    LET tags == Get(el, "tags", EmptyDict)
    IN  IF Get(tags, "building", <<>>) = <<>> THEN Skip
        ELSE IF TooFewPoints(el, 3) THEN Skip
        ELSE IF ProjectError(el["geometry"]) # "none"
             THEN Raise(ProjectError(el["geometry"]))
        ELSE LET inter == Intersection(el.shape, disk)
             IN  IF el.shape.poly \in {"raises", "invalid"} THEN Skip
                 ELSE IF inter \in {"raises", "empty", "invalid"} THEN Skip
                 ELSE Item([geom  |-> [id |-> el.id, area |-> el.shape.area],
                            btype |-> _get_building_type(tags)])

_collect_buildings(d, disk) ==
    RunLoop([i \in 1..Len(Elements(d)) |-> BuildingStep(Elements(d)[i], disk)])

\* DetectWidth with the lanes tag consulted before the width tag
DetectWidth_LanesFirst(tags) ==
    LET w == IF "width" \in DOMAIN tags THEN LeadingNumber(tags["width"])
             ELSE [ok |-> FALSE, val |-> 0]
        l == IF "lanes" \in DOMAIN tags THEN LeadingNumber(tags["lanes"])
             ELSE [ok |-> FALSE, val |-> 0]
    IN  IF l.ok
        THEN [width |-> Max(700, (l.val * 35) \div 10), width_source |-> "lanes"]
        ELSE IF w.ok THEN [width |-> Max(300, w.val), width_source |-> "osm"]
        ELSE [width |-> 100 * Get(DEFAULT_WIDTHS, Get(tags, "highway", "None"), 7),
              width_source |-> "fallback"]

\* 1. width tag, 2. lanes tag, 3. highway class; a tag whose parse raises is
\* passed over (except: pass).  Widths in centimetres.
DetectWidth(tags) ==
    LET w == IF "width" \in DOMAIN tags THEN LeadingNumber(tags["width"])
             ELSE [ok |-> FALSE, val |-> 0]
        l == IF "lanes" \in DOMAIN tags THEN LeadingNumber(tags["lanes"])
             ELSE [ok |-> FALSE, val |-> 0]
    IN  IF w.ok THEN [width |-> Max(300, w.val), width_source |-> "osm"]
        ELSE IF l.ok
             THEN [width |-> Max(700, (l.val * 35) \div 10), width_source |-> "lanes"]
        ELSE [width |-> 100 * Get(DEFAULT_WIDTHS, Get(tags, "highway", "None"), 7),
              width_source |-> "fallback"]

RoadStep(el) ==
    LET tags == Get(el, "tags", EmptyDict)
    IN  IF Get(el, "type", "None") # "way" THEN Skip
        ELSE IF "highway" \notin DOMAIN tags THEN Skip
        ELSE IF TooFewPoints(el, 2) THEN Skip
        ELSE IF ProjectError(el["geometry"]) # "none"
             THEN Raise(ProjectError(el["geometry"]))
        ELSE IF el.shape.rawLen < 10 THEN Skip
        ELSE LET wd == DetectWidth(tags)
             IN  Item([geom |-> [id |-> el.id, length |-> el.shape.rawLen,
                                 segs |-> el.shape.segs],
                       width |-> wd.width,
                       width_source |-> wd.width_source,
                       highway |-> Get(tags, "highway", ""),
                       name |-> Get(tags, "name", "")])

_collect_roads(d) ==
    RunLoop([i \in 1..Len(Elements(d)) |-> RoadStep(Elements(d)[i])])

WaterStep(el, disk) ==
    LET tags == Get(el, "tags", EmptyDict)
    IN  IF Get(tags, "natural", "None") # "water"
           /\ Get(tags, "waterway", "None") # "riverbank" THEN Skip
        ELSE IF TooFewPoints(el, 3) THEN Skip
        ELSE IF ProjectError(el["geometry"]) # "none"
             THEN Raise(ProjectError(el["geometry"]))
        ELSE LET inter == Intersection(el.shape, disk)
             IN  IF el.shape.poly \in {"raises", "invalid"} THEN Skip
                 ELSE IF inter \in {"raises", "empty"} THEN Skip
                 ELSE Item(el.shape.area)

\* a second pass that also turns away an intersection that is not valid
WaterPolygonStep_ValidOnly(el, disk) ==
    LET tags == Get(el, "tags", EmptyDict)
    IN  IF Get(tags, "natural", "None") # "water"
           /\ Get(tags, "waterway", "None") # "riverbank" THEN Skip
        ELSE IF TooFewPoints(el, 3) THEN Skip
        ELSE IF ProjectError(el["geometry"]) # "none"
             THEN Raise(ProjectError(el["geometry"]))
        ELSE LET inter == Intersection(el.shape, disk)
             IN  IF el.shape.poly \in {"raises", "invalid"} THEN Skip
                 ELSE IF inter \in {"raises", "empty", "invalid"} THEN Skip
                 ELSE Item([id |-> el.id, area |-> el.shape.area])

\* water_area += inter.area
_collect_water(d, disk) ==
    LET r == RunLoop([i \in 1..Len(Elements(d)) |-> WaterStep(Elements(d)[i], disk)])
    IN  [err |-> r.err, val |-> SumSeq(r.val)]

WaterPolygonStep(el, disk) ==
    LET tags == Get(el, "tags", EmptyDict)
    IN  IF Get(tags, "natural", "None") # "water"
           /\ Get(tags, "waterway", "None") # "riverbank" THEN Skip
        ELSE IF TooFewPoints(el, 3) THEN Skip
        ELSE IF ProjectError(el["geometry"]) # "none"
             THEN Raise(ProjectError(el["geometry"]))
        ELSE LET inter == Intersection(el.shape, disk)
             IN  IF el.shape.poly \in {"raises", "invalid"} THEN Skip
                 ELSE IF inter \in {"raises", "empty"} THEN Skip
                 ELSE Item([id |-> el.id, area |-> el.shape.area])

\* waters.append(inter)
_collect_water_polygons(d, disk) ==
    RunLoop([i \in 1..Len(Elements(d)) |-> WaterPolygonStep(Elements(d)[i], disk)])

-----------------------------------------------------------------------------
(* get_congestion_features: road clipping and the metrics record *)

\* the source as collected, with no override
FinalSource_Keep(source, width) == source

\* the "smart source decision" of the clipping loop
FinalSource(source, width) ==
    IF source = "osm" THEN "osm"
    ELSE IF source = "lanes" THEN "lanes"
    ELSE IF width >= 300 THEN "osm"
    ELSE "fallback"

\* ClipRoad with the clipped line kept as one entry
ClipRoad_Merged(rd, disk) ==
    LET parts == ClippedParts(rd.geom, disk)
    IN  IF parts = <<>> \/ SumSeq(parts) < 10
        THEN [area |-> 0, details |-> <<>>]
        ELSE [area |-> SumSeq(parts) * rd.width,
              details |-> <<[geom |-> [id |-> rd.geom.id, part |-> 1,
                                       length |-> SumSeq(parts)],
                             width |-> rd.width,
                             width_source |-> FinalSource(rd.width_source, rd.width),
                             highway |-> rd.highway,
                             name |-> rd.name]>>]

\* one iteration of "for rd in roads_raw": the area added to road_area_total
\* and the entries appended to road_details
ClipRoad(rd, disk) ==
    LET parts == ClippedParts(rd.geom, disk)
    IN  IF parts = <<>> \/ SumSeq(parts) < 10
        THEN [area |-> 0, details |-> <<>>]
        ELSE [area |-> SumSeq([i \in 1..Len(parts) |->
                          IF rd.width # 0 /\ parts[i] > 0
                          THEN parts[i] * rd.width ELSE 0]),
              details |-> [i \in 1..Len(parts) |->
                          [geom |-> [id |-> rd.geom.id, part |-> i,
                                     length |-> parts[i]],
                           width |-> rd.width,
                           width_source |-> FinalSource(rd.width_source, rd.width),
                           highway |-> rd.highway,
                           name |-> rd.name]]]

RECURSIVE ClipRoads(_, _)
ClipRoads(roads, disk) ==
    IF roads = <<>> THEN [area |-> 0, details |-> <<>>]
    ELSE LET h == ClipRoad(Head(roads), disk)
             t == ClipRoads(Tail(roads), disk)
         IN  [area |-> h.area + t.area, details |-> h.details \o t.details]

\* the open space floored at zero
TrueOpenSpace_Clamped(area_m2, building, road, water) ==
    Max(0, area_m2 - building - road - water)

\* area_m2 - total_building_area - road_area_total - water_area
TrueOpenSpace(area_m2, building, road, water) == area_m2 - building - road - water

\* a / area_m2, in thousandths, rounded down
Ratio(a, area_m2) == (a * 1000) \div area_m2

\* type_areas[btype] = area: the last building of a type replaces the sum
TypeAreas_Overwrite(bld) ==
    [t \in {bld[i].btype : i \in 1..Len(bld)} |->
        LET last == CHOOSE i \in 1..Len(bld) :
                        /\ bld[i].btype = t
                        /\ \A j \in 1..Len(bld) : bld[j].btype = t => j <= i
        IN  bld[last].geom.area]

\* type_areas[btype] = type_areas.get(btype, 0) + area
TypeAreas(bld) ==
    [t \in {bld[i].btype : i \in 1..Len(bld)} |->
        SumSeq([i \in 1..Len(bld) |->
                    IF bld[i].btype = t THEN bld[i].geom.area ELSE 0])]

\* lines 255-278: the float division raises ZeroDivisionError when
\* area_m2 is 0.0
Aggregate(bld, road_area, water, r) ==
    LET area_m2 == PiMilli * r * r
        total_building_area == SumSeq([i \in 1..Len(bld) |-> bld[i].geom.area])
        true_open_space == TrueOpenSpace(area_m2, total_building_area, road_area, water)
    IN  IF area_m2 = 0 THEN [err |-> "ZeroDivisionError", val |-> EmptyDict]
        ELSE [err |-> "none",
              val |-> [analysis_area_m2 |-> area_m2,
                       total_building_area_m2 |-> total_building_area,
                       building_coverage_ratio |-> Ratio(total_building_area, area_m2),
                       total_road_area_m2 |-> road_area,
                       road_area_coverage |-> Ratio(road_area, area_m2),
                       water_area_m2 |-> water,
                       water_coverage_ratio |-> Ratio(water, area_m2),
                       true_open_space_m2 |-> true_open_space,
                       true_open_space_ratio |-> Ratio(true_open_space, area_m2),
                       detected_buildings |-> Len(bld),
                       building_types_area |-> TypeAreas(bld)]]

\* the locals of get_congestion_features after "stage" of its statements
\* have completed; err is the exception that left it, if any
Locals(stage, err, bld, roads, water, waters, clip, m) ==
    [error |-> err,
     buildings_with_type |-> IF stage >= 1 THEN Some(bld) ELSE NoneV,
     roads_raw |-> IF stage >= 2 THEN Some(roads) ELSE NoneV,
     water_area |-> IF stage >= 3 THEN Some(water) ELSE NoneV,
     water_polygons |-> IF stage >= 4 THEN Some(waters) ELSE NoneV,
     road_area_total |-> IF stage >= 5 THEN Some(clip.area) ELSE NoneV,
     road_details |-> IF stage >= 5 THEN Some(clip.details) ELSE NoneV,
     metrics |-> IF stage >= 6 THEN Some(m) ELSE NoneV]

NoClip == [area |-> 0, details |-> <<>>]

\* The statements of get_congestion_features after the fetch, in program
\* order.  Each operator takes the locals computed so far and the result x
\* of the statement it follows; a singleton comprehension {F(x) : x \in {e}}
\* binds the result of e once, as the assignment does.

\* lines 255-288: the metrics record and the return
AfterAggregate(bld, roads, water, waters, clip, agg) ==
    IF agg.err # "none"
    THEN Locals(5, agg.err, bld, roads, water, waters, clip, EmptyDict)
    ELSE Locals(6, "none", bld, roads, water, waters, clip, agg.val)

\* lines 218-253: the clipping loop
AfterClip(r, bld, roads, water, waters, clip) ==
    CHOOSE out \in {AfterAggregate(bld, roads, water, waters, clip, agg) :
                        agg \in {Aggregate(bld, clip.area, water, r)}} : TRUE

\* line 211
AfterWaterPolygons(disk, r, bld, roads, water, wp) ==
    IF wp.err # "none"
    THEN Locals(3, wp.err, bld, roads, water, <<>>, NoClip, EmptyDict)
    ELSE CHOOSE out \in {AfterClip(r, bld, roads, water, wp.val, clip) :
                            clip \in {ClipRoads(roads, disk)}} : TRUE

\* line 210
AfterWater(d, disk, r, bld, roads, w) ==
    IF w.err # "none"
    THEN Locals(2, w.err, bld, roads, 0, <<>>, NoClip, EmptyDict)
    ELSE CHOOSE out \in {AfterWaterPolygons(disk, r, bld, roads, w.val, wp) :
                            wp \in {_collect_water_polygons(d, disk)}} : TRUE

\* line 209
AfterRoads(d, disk, r, bld, rr) ==
    IF rr.err # "none"
    THEN Locals(1, rr.err, bld, <<>>, 0, <<>>, NoClip, EmptyDict)
    ELSE CHOOSE out \in {AfterWater(d, disk, r, bld, rr.val, w) :
                            w \in {_collect_water(d, disk)}} : TRUE

\* line 208
AfterBuildings(d, disk, r, b) ==
    IF b.err # "none"
    THEN Locals(0, b.err, <<>>, <<>>, 0, <<>>, NoClip, EmptyDict)
    ELSE CHOOSE out \in {AfterRoads(d, disk, r, b.val, rr) :
                            rr \in {_collect_roads(d)}} : TRUE

Pipeline(d, disk, r) ==
    CHOOSE out \in {AfterBuildings(d, disk, r, b) :
                        b \in {_collect_buildings(d, disk)}} : TRUE

-----------------------------------------------------------------------------
(* app.py, lines 63-82: the congestion score.  A quotient of two floats is  *)
(* kept as the exact fraction n / d with d > 0; the score is in tenths.     *)

Frac(n, d) == [n |-> n, d |-> d]
Min(a, b) == IF a <= b THEN a ELSE b

\* max(total_area_m2 - water_area, 1), in thousandths of a square metre
EffectiveLandArea(r, water) == Max(PiMilli * r * r - water, 1000)

\* (total_building_area + total_road_area) / effective_land_area
UsedAreaRatio(building, road, eff) ==
    IF eff = 0 THEN [err |-> "ZeroDivisionError", val |-> Frac(0, 1)]
    ELSE [err |-> "none", val |-> Frac(building + road, eff)]

\* max(-2, min(2, (used_area_ratio - 0.30) / 0.25))
ZUsed(ratio) ==
    LET z == Frac(40 * ratio.n - 12 * ratio.d, 10 * ratio.d)
    IN  IF z.n < -2 * z.d THEN Frac(-2, 1)
        ELSE IF z.n > 2 * z.d THEN Frac(2, 1)
        ELSE z

\* z_used * 5 + 5
RawScore(z) == Frac(5 * z.n + 5 * z.d, z.d)

\* round(x, 1) in tenths: the nearest tenth, a tie going to the even one
Round1(x) ==
    LET q == (10 * x.n) \div x.d
        rem == (10 * x.n) % x.d
    IN  IF 2 * rem < x.d THEN q
        ELSE IF 2 * rem > x.d THEN q + 1
        ELSE IF q % 2 = 0 THEN q ELSE q + 1

\* the score without the final clamp
CongestionScore_Unclamped(ratio) == Round1(RawScore(ZUsed(ratio)))

\* max(0, min(10, round(raw_score, 1)))
CongestionScore(ratio) == Max(0, Min(100, Round1(RawScore(ZUsed(ratio)))))

Level(score) ==
    IF score > 70 THEN "HIGH" ELSE IF score > 40 THEN "MEDIUM" ELSE "LOW"

-----------------------------------------------------------------------------
(* Inputs: the requests and the bodies the provider may answer with *)

MaxBatch == 2

PtOk == [lon |-> "num", lat |-> "num"]
PtNoLon == [lat |-> "num"]
PtNull == [lon |-> "null", lat |-> "num"]
Ring == <<PtOk, PtOk, PtOk, PtOk>>
Line2 == <<PtOk, PtOk>>

Polygonal(poly, inter, area) ==
    [poly |-> poly, inter |-> inter, area |-> area, rawLen |-> 0, segs |-> <<>>]
Linear(rawLen, segs) ==
    [poly |-> "invalid", inter |-> "empty", area |-> 0, rawLen |-> rawLen, segs |-> segs]

Way(id, tags, geom, shape) ==
    [type |-> "way", id |-> id, tags |-> tags, geometry |-> geom, shape |-> shape]

S_house == <<"h", "o", "u", "s", "e">>
S_Yes == <<"Y", "e", "s">>
S_shed == <<"s", "h", "e", "d">>

\* a batch alphabet with every kind of element the collectors distinguish
CoreElements ==
    { Way(1, [building |-> S_house], Ring, Polygonal("valid", "valid", 2500)),
      Way(2, [building |-> S_Yes], Ring, Polygonal("repaired", "repaired", 1200)),
      Way(3, [building |-> S_yes], <<PtNoLon>>, Polygonal("valid", "valid", 900)),
      Way(4, [building |-> S_yes], <<PtOk, PtNoLon, PtOk>>,
          Polygonal("valid", "valid", 900)),
      Way(5, [building |-> S_shed], Ring, Polygonal("invalid", "valid", 700)),
      Way(6, [building |-> S_house], Ring, Polygonal("valid", "empty", 0)),
      Way(7, [highway |-> "residential", name |-> "FC Road"], Line2,
          Linear(40, <<5, 12>>)),
      Way(8, [highway |-> "primary", width |-> <<"3", ".", "5">>], Line2,
          Linear(30, <<4, 5>>)),
      Way(9, [highway |-> "service"], <<PtOk>>, Linear(0, <<>>)),
      Way(10, [highway |-> "residential"], <<PtOk, PtNull>>, Linear(20, <<20>>)),
      Way(11, [highway |-> "tertiary", lanes |-> <<"2">>], Line2, Linear(12, <<12, 0>>)),
      Way(12, [highway |-> "footway"], Line2, Linear(5, <<5>>)),
      Way(13, [natural |-> "water"], Ring, Polygonal("valid", "valid", 1000)),
      Way(14, [waterway |-> "riverbank"], Line2, Polygonal("valid", "valid", 800)),
      [type |-> "way", id |-> 15,
       tags |-> [building |-> S_yes, highway |-> "trunk", natural |-> "water"]],
      [type |-> "node", id |-> 16, tags |-> [highway |-> "primary"],
       geometry |-> Line2, shape |-> Linear(30, <<30>>)],
      [type |-> "way", id |-> 17, geometry |-> Ring,
       shape |-> Polygonal("valid", "valid", 600)],
      Way(18, [building |-> S_yes, highway |-> "service"], Line2, Linear(15, <<15>>)) }

SeqsUpTo(S, n) == UNION {[1..k -> S] : k \in 0..n}

CoreBodies ==
    {[elements |-> b] : b \in SeqsUpTo(CoreElements, MaxBatch)}
        \cup {[remark |-> "runtime error"]}

\* tag values of single roads and buildings, for the width and type rules
WidthValues ==
    { <<"2">>, <<"3", ".", "5">>, <<"1", "2">>, <<"5", " ", "m">>, <<"5", "m">>,
      <<" ">>, <<>>, <<"-", "4">>, <<" ", "6">>, <<".">>, <<"4", ".">> }
LanesValues ==
    { <<"1">>, <<"2">>, <<"4">>, <<"2", ".", "5">>, <<"2", ";", "3">>, <<>>, <<"-", "2">> }
HighwayValues == {"motorway", "trunk", "primary", "secondary", "tertiary",
                  "residential", "unclassified", "service", "footway"}
BuildingValues ==
    { S_yes, S_Yes, S_1, S_true, <<"T", "R", "U", "E">>, <<" ", "y", "e", "s", " ">>,
      S_house, <<"H", "o", "u", "s", "e">>, <<"h", "o", "u", "s", "e", " ">>,
      <<" ">>, <<>>, <<"n", "o">> }

WithKey(present, k, v) == IF present THEN (k :> v) ELSE EmptyDict

WideRoads ==
    { Way(20, [highway |-> h] @@ WithKey(w # <<"absent">>, "width", w)
                              @@ WithKey(l # <<"absent">>, "lanes", l),
          Line2, Linear(30, <<12>>)) :
        h \in HighwayValues,
        w \in WidthValues \cup {<<"absent">>},
        l \in LanesValues \cup {<<"absent">>} }

WideBuildings ==
    { Way(21, [building |-> b], Ring, Polygonal("valid", "valid", 1500)) :
        b \in BuildingValues }
        \cup {Way(21, [amenity |-> "school"], Ring, Polygonal("valid", "valid", 1500))}

WideBodies == {[elements |-> <<e>>] : e \in WideRoads \cup WideBuildings}

Radii == {-1, 0, 1, 2}
Requests ==
    {[lat |-> 18, lng |-> 73, radius |-> r] : r \in Radii}
        \cup {[lat |-> -34, lng |-> 151, radius |-> 1]}
DefaultRequest == [lat |-> 18, lng |-> 73, radius |-> 2]

\* bodies for the properties of the fetch loop alone
FetchBodies ==
    {[elements |-> b] : b \in {<<>>} \cup {<<e>> : e \in {x \in CoreElements : x.id \in {1, 4, 7}}}}

\* batches whose areas put the used ratio below, between and above the
\* level thresholds, and the water at or above the disk area
ScoreElements ==
    { Way(30, [building |-> S_yes], Ring, Polygonal("valid", "valid", 250)),
      Way(31, [building |-> S_yes], Ring, Polygonal("valid", "valid", 400)),
      Way(32, [building |-> S_house], Ring, Polygonal("valid", "valid", 2000)),
      Way(33, [building |-> S_shed], Ring, Polygonal("valid", "valid", 6000)),
      Way(34, [highway |-> "residential", width |-> <<"3">>], Line2,
          Linear(10, <<10>>)),
      Way(35, [natural |-> "water"], Ring, Polygonal("valid", "valid", 1571)),
      Way(36, [waterway |-> "riverbank"], Ring, Polygonal("valid", "valid", 2000)),
      Way(37, [natural |-> "water"], Ring, Polygonal("valid", "valid", 9000)) }
ScoreBodies == {[elements |-> b] : b \in SeqsUpTo(ScoreElements, MaxBatch)}
ScoreRequests == {[lat |-> 18, lng |-> 73, radius |-> r] : r \in {1, 2}}

\* water ways of every kind the two water passes distinguish, next to a
\* building and a road
WaterElements ==
    { Way(40, [natural |-> "water"], Ring, Polygonal("valid", "valid", 1000)),
      Way(41, [waterway |-> "riverbank"], Ring,
          Polygonal("repaired", "repaired", 800)),
      Way(42, [natural |-> "water"], Ring, Polygonal("valid", "invalid", 600)),
      Way(43, [natural |-> "water"], Ring, Polygonal("valid", "empty", 0)),
      Way(44, [natural |-> "water"], Ring, Polygonal("invalid", "valid", 900)),
      Way(45, [waterway |-> "riverbank"], Ring, Polygonal("valid", "raises", 0)),
      Way(46, [building |-> S_yes, natural |-> "water"], Ring,
          Polygonal("valid", "valid", 500)),
      Way(47, [natural |-> "water"], <<PtOk, PtNoLon, PtOk>>,
          Polygonal("valid", "valid", 300)),
      Way(48, [natural |-> "water"], Line2, Polygonal("valid", "valid", 200)),
      Way(49, [natural |-> "water"], Ring, Polygonal("valid", "valid", 0)),
      Way(50, [building |-> S_house], Ring, Polygonal("valid", "valid", 700)),
      Way(51, [highway |-> "residential"], Line2, Linear(20, <<20>>)) }
WaterBodies == {[elements |-> b] : b \in SeqsUpTo(WaterElements, MaxBatch)}
WaterRequests == {[lat |-> 18, lng |-> 73, radius |-> r] : r \in {-1, 2}}

-----------------------------------------------------------------------------
(* The request *)

InitWith(requests, bodies) ==
    /\ \E rq \in requests :
          /\ lat = rq.lat
          /\ lng = rq.lng
          /\ radius = rq.radius
    /\ provider \in bodies
    /\ pc = "start"
    /\ round = 0
    /\ ep = 0
    /\ attempts = 0
    /\ slept = 0
    /\ okCount = 0
    /\ data = NoneV
    /\ fwd = NoneV
    /\ buf = NoneV
    /\ buildings_with_type = NoneV
    /\ roads_raw = NoneV
    /\ water_area = NoneV
    /\ water_polygons = NoneV
    /\ road_details = NoneV
    /\ road_area_total = NoneV
    /\ metrics = NoneV
    /\ error = "none"
    /\ effective_land_area = NoneV
    /\ used_area_ratio = NoneV
    /\ congestion_score = NoneV
    /\ level = NoneV

Init == InitWith(Requests, CoreBodies) \/ InitWith({DefaultRequest}, WideBodies)

locals == <<buildings_with_type, roads_raw, water_area, water_polygons,
            road_details, road_area_total, metrics>>
request == <<lat, lng, radius, provider>>
\* the locals of app.py after the call
app == <<effective_land_area, used_area_ratio, congestion_score, level>>

\* lines 192-207: projector, disk, bounding box and query, then _overpass
\* is entered with the first round and the first endpoint
Start ==
    /\ pc = "start"
    /\ fwd' = Some(_projector(lat, lng))
    /\ buf' = Some(_buffer_circle(lat, lng, radius))
    /\ round' = 1
    /\ ep' = 1
    /\ pc' = "fetch"
    /\ UNCHANGED <<request, attempts, slept, okCount, data, locals, error, app>>

\* what requests.post and r.json() may produce
Statuses == {200, 404, 429, 500, 501, 502, 503, 504}
Responses ==
    {[kind |-> "http", status |-> st, json |-> j] : st \in Statuses, j \in BOOLEAN}
        \cup {[kind |-> "neterr", status |-> 0, json |-> FALSE]}

Transient(resp) ==
    resp.kind = "http" /\ resp.status \in {429, 500, 502, 503, 504}
\* requests.post raised, raise_for_status() raised, or r.json() raised
Excepts(resp) ==
    \/ resp.kind = "neterr"
    \/ /\ resp.kind = "http"
       /\ ~Transient(resp)
       /\ (resp.status >= 400 \/ ~resp.json)

\* time.sleep(2) before continue, time.sleep(1) in the except clause
Backoff(resp) == IF Transient(resp) THEN 2 ELSE 1

\* one round too many
Exhausted_ExtraRound(rnd, e) == e = Len(OVERPASS_ENDPOINTS) /\ rnd = RETRY + 1

\* the two for loops are exhausted after this iteration
Exhausted(rnd, e) == e = Len(OVERPASS_ENDPOINTS) /\ rnd = RETRY

\* the loops end by returning an empty response instead of raising
NextIteration_Swallow ==
    IF Exhausted(round, ep)
    THEN /\ pc' = "collect"
         /\ data' = Some(EmptyDict)
         /\ UNCHANGED <<round, ep, error>>
    ELSE /\ pc' = "fetch"
         /\ ep' = IF ep = Len(OVERPASS_ENDPOINTS) THEN 1 ELSE ep + 1
         /\ round' = IF ep = Len(OVERPASS_ENDPOINTS) THEN round + 1 ELSE round
         /\ UNCHANGED <<error, data>>

\* a failed iteration: the next endpoint, the next round, or the raise
\* that follows the loops
NextIteration ==
    IF Exhausted(round, ep)
    THEN /\ pc' = "raised"
         /\ error' = "RuntimeError"
         /\ UNCHANGED <<round, ep, data>>
    ELSE /\ pc' = "fetch"
         /\ ep' = IF ep = Len(OVERPASS_ENDPOINTS) THEN 1 ELSE ep + 1
         /\ round' = IF ep = Len(OVERPASS_ENDPOINTS) THEN round + 1 ELSE round
         /\ UNCHANGED <<error, data>>

RequestOk ==
    /\ pc = "fetch"
    /\ \E resp \in Responses :
          /\ ~Transient(resp) /\ ~Excepts(resp)
          /\ attempts' = attempts + 1
          /\ okCount' = okCount + 1
          /\ data' = Some(provider)
          /\ pc' = "collect"
    /\ UNCHANGED <<request, round, ep, slept, fwd, buf, locals, error, app>>

RequestTransient ==
    /\ pc = "fetch"
    /\ \E resp \in Responses :
          /\ Transient(resp)
          /\ attempts' = attempts + 1
          /\ slept' = slept + Backoff(resp)
    /\ NextIteration
    /\ UNCHANGED <<request, okCount, fwd, buf, locals, app>>

RequestExcept ==
    /\ pc = "fetch"
    /\ \E resp \in Responses :
          /\ Excepts(resp)
          /\ attempts' = attempts + 1
          /\ slept' = slept + Backoff(resp)
    /\ NextIteration
    /\ UNCHANGED <<request, okCount, fwd, buf, locals, app>>

\* lines 208-288: collectors, clipping, metrics and the return; an
\* exception of any of them leaves get_congestion_features
Process ==
    /\ pc = "collect"
    /\ \E out \in {Pipeline(data.val, buf.val, radius)} :
           /\ buildings_with_type' = out.buildings_with_type
           /\ roads_raw' = out.roads_raw
           /\ water_area' = out.water_area
           /\ water_polygons' = out.water_polygons
           /\ road_area_total' = out.road_area_total
           /\ road_details' = out.road_details
           /\ metrics' = out.metrics
           /\ error' = out.error
           /\ pc' = IF out.error = "none" THEN "returned" ELSE "raised"
    /\ UNCHANGED <<request, round, ep, attempts, slept, okCount, data, fwd, buf, app>>

\* app.py lines 63-82, once get_congestion_features has returned
Score ==
    /\ pc = "returned"
    /\ level = NoneV
    /\ \E eff \in {EffectiveLandArea(radius, metrics.val.water_area_m2)} :
         \E ratio \in {UsedAreaRatio(metrics.val.total_building_area_m2,
                                     metrics.val.total_road_area_m2, eff)} :
           /\ effective_land_area' = Some(eff)
           /\ IF ratio.err # "none"
              THEN /\ pc' = "raised"
                   /\ error' = ratio.err
                   /\ UNCHANGED <<used_area_ratio, congestion_score, level>>
              ELSE /\ used_area_ratio' = Some(ratio.val)
                   /\ congestion_score' = Some(CongestionScore(ratio.val))
                   /\ level' = Some(Level(CongestionScore(ratio.val)))
                   /\ UNCHANGED <<pc, error>>
    /\ UNCHANGED <<request, round, ep, attempts, slept, okCount, data, fwd, buf,
                   locals>>

Next == Start \/ RequestOk \/ RequestTransient \/ RequestExcept \/ Process
            \/ Score

Spec == Init /\ [][Next]_vars

\* the same request over a few bodies, with the progress the sequential
\* program makes
FetchSpec == InitWith(Requests, FetchBodies) /\ [][Next]_vars /\ WF_vars(Next)

\* the request over batches chosen for the score
ScoreSpec == InitWith(ScoreRequests, ScoreBodies) /\ [][Next]_vars

\* the request over batches of water ways
WaterSpec == InitWith(WaterRequests, WaterBodies) /\ [][Next]_vars

Terminated == pc \in {"returned", "raised"}

-----------------------------------------------------------------------------
(* Vocabulary of the properties *)

Returned == pc = "returned"
Batch == Elements(provider)
NPoints(el) == IF "geometry" \in DOMAIN el THEN Len(el["geometry"]) ELSE 0
TagsOf(el) == Get(el, "tags", EmptyDict)

\* the decimal value, in hundredths, of the first token of each modelled
\* width or lanes value that has a numeric first token
NumericTag ==
    <<"1">> :> 100 @@ <<"2">> :> 200 @@ <<"4">> :> 400 @@ <<"1", "2">> :> 1200
    @@ <<"3", ".", "5">> :> 350 @@ <<"2", ".", "5">> :> 250 @@ <<"4", ".">> :> 400
    @@ <<"5", " ", "m">> :> 500 @@ <<" ", "6">> :> 600
    @@ <<"-", "4">> :> -400 @@ <<"-", "2">> :> -200
Numeric(tags, k) == k \in DOMAIN tags /\ tags[k] \in DOMAIN NumericTag

\* the ways _collect_roads keeps: type way, a highway tag, two points or
\* more, a line of at least 1 m
RoadCandidate(el) ==
    /\ Get(el, "type", "None") = "way"
    /\ "highway" \in DOMAIN TagsOf(el)
    /\ NPoints(el) >= 2
    /\ el.shape.rawLen >= 10
RoadCandidates == SelectSeq(Batch, RoadCandidate)

\* C1 as claimed: a width tag always decides the width (source "osm"), a
\* lanes tag decides it when there is no width tag, the highway class
\* otherwise.
C1_WidthTagAlwaysWins ==
    roads_raw # NoneV =>
        /\ Len(roads_raw.val) = Len(RoadCandidates)
        /\ \A i \in 1..Len(roads_raw.val) :
              LET t  == RoadCandidates[i].tags
                  rd == roads_raw.val[i]
              IN  /\ "width" \in DOMAIN t => rd.width_source = "osm"
                  /\ Numeric(t, "width") => rd.width = Max(300, NumericTag[t["width"]])
                  /\ "width" \notin DOMAIN t /\ "lanes" \in DOMAIN t =>
                        rd.width_source = "lanes"
                  /\ "width" \notin DOMAIN t /\ Numeric(t, "lanes") =>
                        rd.width = Max(700, (35 * NumericTag[t["lanes"]]) \div 10)
                  /\ "width" \notin DOMAIN t /\ "lanes" \notin DOMAIN t =>
                        /\ rd.width_source = "fallback"
                        /\ rd.width = 100 * Get(DEFAULT_WIDTHS, t["highway"], 7)

\* C1 as amended: the width tag decides when its first token is a number
\* (width = max(3.0, number), source "osm"); otherwise the lanes tag decides
\* when its first token is a number (width = max(7.0, 3.5 x lanes), source
\* "lanes"); otherwise the highway class decides (DEFAULT_WIDTHS, or 7 for an
\* unknown class, source "fallback").
C1_WidthPrecedence ==
    roads_raw # NoneV =>
        /\ Len(roads_raw.val) = Len(RoadCandidates)
        /\ \A i \in 1..Len(roads_raw.val) :
              LET t  == RoadCandidates[i].tags
                  rd == roads_raw.val[i]
              IN  IF Numeric(t, "width")
                  THEN /\ rd.width_source = "osm"
                       /\ rd.width = Max(300, NumericTag[t["width"]])
                  ELSE IF Numeric(t, "lanes")
                  THEN /\ rd.width_source = "lanes"
                       /\ rd.width = Max(700, (35 * NumericTag[t["lanes"]]) \div 10)
                  ELSE /\ rd.width_source = "fallback"
                       /\ rd.width = 100 * Get(DEFAULT_WIDTHS, t["highway"], 7)

\* a way with a numeric width tag below the floor and a numeric lanes tag
\* was collected with the floored explicit width
C1_Witness ==
    /\ roads_raw # NoneV
    /\ \E i \in 1..Len(roads_raw.val) :
          /\ i <= Len(RoadCandidates)
          /\ Numeric(RoadCandidates[i].tags, "width")
          /\ Numeric(RoadCandidates[i].tags, "lanes")
          /\ NumericTag[RoadCandidates[i].tags["width"]] < 300
          /\ NumericTag[RoadCandidates[i].tags["lanes"]] > 200
          /\ roads_raw.val[i].width = 300
          /\ roads_raw.val[i].width_source = "osm"

\* the elements _collect_buildings keeps: a non-empty building tag, three
\* points or more, a polygon that is valid (repaired if need be) and whose
\* intersection with the disk is non-empty and valid (repaired if need be)
BuildingCandidate(el) ==
    /\ "building" \in DOMAIN TagsOf(el)
    /\ TagsOf(el)["building"] # <<>>
    /\ NPoints(el) >= 3
    /\ el.shape.poly \in {"valid", "repaired"}
    /\ radius > 0
    /\ el.shape.inter \in {"valid", "repaired"}
BuildingCandidates == SelectSeq(Batch, BuildingCandidate)

GenericValues == {S_yes, S_1, S_true}

\* C8 as claimed: no building without a non-empty building tag; a value in
\* {"yes", "1", "true"} gives "building=yes"; any other value v gives
\* "building=" followed by v itself.
C8_TypePreservesValue ==
    buildings_with_type # NoneV =>
        /\ Len(buildings_with_type.val) = Len(BuildingCandidates)
        /\ \A i \in 1..Len(buildings_with_type.val) :
              LET v == BuildingCandidates[i].tags["building"]
                  t == buildings_with_type.val[i].btype
              IN  IF v \in GenericValues THEN t = S_prefix \o S_yes
                  ELSE t = S_prefix \o v

\* the modelled building values that str.strip().lower() changes
Normalised ==
    S_Yes :> S_yes @@ <<"T", "R", "U", "E">> :> S_true
    @@ <<" ", "y", "e", "s", " ">> :> S_yes
    @@ <<"H", "o", "u", "s", "e">> :> S_house
    @@ <<"h", "o", "u", "s", "e", " ">> :> S_house
    @@ <<" ">> :> <<>>
NormalisedValue(v) == IF v \in DOMAIN Normalised THEN Normalised[v] ELSE v

\* C8 as amended: no building without a non-empty building tag; a value that
\* is "yes", "1" or "true" once stripped of surrounding whitespace and
\* lower-cased gives "building=yes"; any other value gives "building="
\* followed by the stripped, lower-cased value.
C8_TypeNormalised ==
    buildings_with_type # NoneV =>
        /\ Len(buildings_with_type.val) = Len(BuildingCandidates)
        /\ \A i \in 1..Len(buildings_with_type.val) :
              LET v == NormalisedValue(BuildingCandidates[i].tags["building"])
                  t == buildings_with_type.val[i].btype
              IN  IF v \in GenericValues THEN t = S_prefix \o S_yes
                  ELSE t = S_prefix \o v

\* a building tagged with a mixed-case value other than "yes" was classified
C8_Witness ==
    /\ buildings_with_type # NoneV
    /\ Len(BuildingCandidates) = 1
    /\ BuildingCandidates[1].tags["building"] = <<"H", "o", "u", "s", "e">>
    /\ Len(buildings_with_type.val) = 1
    /\ buildings_with_type.val[1].btype = S_prefix \o S_house

BuildingAreaOf(bld) == SumSeq([i \in 1..Len(bld) |-> bld[i].geom.area])

\* C5: in every returned metrics record buildings + roads + water + open
\* space is the disk area pi * radius^2; the open space is negative exactly
\* when buildings + roads + water exceed the disk area, and in that case the
\* record is still returned.
C5_AreasAddUp ==
    /\ Returned =>
          /\ metrics # NoneV
          /\ LET m == metrics.val
             IN  /\ m.analysis_area_m2 = PiMilli * radius * radius
                 /\ m.total_building_area_m2 + m.total_road_area_m2
                       + m.water_area_m2 + m.true_open_space_m2 = m.analysis_area_m2
                 /\ m.true_open_space_m2 < 0 <=>
                       m.total_building_area_m2 + m.total_road_area_m2
                           + m.water_area_m2 > m.analysis_area_m2
                 /\ m.total_building_area_m2 = BuildingAreaOf(buildings_with_type.val)
                 /\ m.total_road_area_m2 = road_area_total.val
                 /\ m.water_area_m2 = water_area.val
    /\ (/\ road_area_total # NoneV
        /\ BuildingAreaOf(buildings_with_type.val) + road_area_total.val
              + water_area.val > PiMilli * radius * radius) => Returned

\* a record was returned whose open space is negative
C5_Witness ==
    /\ Returned
    /\ metrics # NoneV
    /\ metrics.val.true_open_space_m2 < 0
    /\ metrics.val.total_building_area_m2 > 0

\* the parts the clipped line of a collected way splits into
PartsOf(rd) == IF radius > 0 THEN rd.geom.segs ELSE <<>>
EntriesOf(id) == SelectSeq(road_details.val, LAMBDA e : e.geom.id = id)
WaysOf(id) == SelectSeq(roads_raw.val, LAMBDA r : r.geom.id = id)
LengthsOf(es) == SumSeq([i \in 1..Len(es) |-> es[i].geom.length])

\* the entries of a way all carry its width, class and name and one source
SameMetadata(rd, es) ==
    \A i \in 1..Len(es) :
        /\ es[i].width = rd.width
        /\ es[i].highway = rd.highway
        /\ es[i].name = rd.name
        /\ es[i].width_source = es[1].width_source

\* C7 as claimed: a way whose clipped line has k >= 2 parts has exactly k
\* entries (per occurrence of the way in the batch), all with its width,
\* source, class and name; their lengths add up to the clipped length, and
\* the way adds clipped length x width to the road area.
C7_SplitWayKeepsAllParts ==
    road_details # NoneV =>
        /\ \A j \in 1..Len(roads_raw.val) :
              LET rd == roads_raw.val[j]
                  es == EntriesOf(rd.geom.id)
                  n  == Len(WaysOf(rd.geom.id))
              IN  Len(PartsOf(rd)) >= 2 =>
                      /\ Len(es) = n * Len(PartsOf(rd))
                      /\ SameMetadata(rd, es)
                      /\ LengthsOf(es) = n * SumSeq(PartsOf(rd))
        /\ road_area_total.val =
              SumSeq([j \in 1..Len(roads_raw.val) |->
                  LET rd == roads_raw.val[j]
                  IN  IF Len(PartsOf(rd)) >= 2 \/ SumSeq(PartsOf(rd)) >= 10
                      THEN SumSeq(PartsOf(rd)) * rd.width ELSE 0])

\* C7 as amended: the same for a way whose clipped line has k >= 2 parts
\* and a total length of at least 1 m; a way whose clipped line is shorter
\* than 1 m in total has no entry and adds nothing to the road area.
C7_SplitWayOfOneMetre ==
    road_details # NoneV =>
        /\ \A j \in 1..Len(roads_raw.val) :
              LET rd == roads_raw.val[j]
                  es == EntriesOf(rd.geom.id)
                  n  == Len(WaysOf(rd.geom.id))
              IN  /\ Len(PartsOf(rd)) >= 2 /\ SumSeq(PartsOf(rd)) >= 10 =>
                      /\ Len(es) = n * Len(PartsOf(rd))
                      /\ SameMetadata(rd, es)
                      /\ LengthsOf(es) = n * SumSeq(PartsOf(rd))
                  /\ SumSeq(PartsOf(rd)) < 10 => Len(es) = 0
        /\ road_area_total.val =
              SumSeq([j \in 1..Len(roads_raw.val) |->
                  LET rd == roads_raw.val[j]
                  IN  IF SumSeq(PartsOf(rd)) >= 10
                      THEN SumSeq(PartsOf(rd)) * rd.width ELSE 0])

\* a way clipped into two parts of 0.5 m and 1.2 m was emitted as two
\* entries
C7_Witness ==
    /\ road_details # NoneV
    /\ \E j \in 1..Len(roads_raw.val) :
          /\ PartsOf(roads_raw.val[j]) = <<5, 12>>
          /\ Len(WaysOf(roads_raw.val[j].geom.id)) = 1
          /\ Len(EntriesOf(roads_raw.val[j].geom.id)) = 2
          /\ road_area_total.val >= 17 * roads_raw.val[j].width

Budget == RETRY * Len(OVERPASS_ENDPOINTS)
NothingComputed ==
    /\ data = NoneV
    /\ buildings_with_type = NoneV
    /\ roads_raw = NoneV
    /\ water_area = NoneV
    /\ water_polygons = NoneV
    /\ road_details = NoneV
    /\ road_area_total = NoneV
    /\ metrics = NoneV

\* C2: as long as no request has succeeded nothing is collected, clipped or
\* aggregated and nothing is returned; once every request of every round has
\* failed, the call has ended by raising the fetch error.
C2_FetchFailureIsFatal ==
    okCount = 0 =>
        /\ NothingComputed
        /\ ~Returned
        /\ attempts = Budget =>
              /\ pc = "raised"
              /\ error = "RuntimeError"

\* every request of every round was answered with a transient status such
\* as 503, and the call raised
C2_Witness ==
    /\ pc = "raised"
    /\ error = "RuntimeError"
    /\ okCount = 0
    /\ attempts = Budget
    /\ slept = 2 * Budget
    /\ metrics = NoneV

\* requests issued so far equal the loop iterations consumed, whatever the
\* kind of failure; at most RETRY per endpoint; each failure slept 1 or 2
\* seconds; a success ends the loop with the provider's parsed body; the
\* fetch error is raised only when the budget is spent
C9_Budget ==
    /\ attempts <= Budget
    /\ pc = "fetch" =>
          /\ okCount = 0
          /\ attempts = (round - 1) * Len(OVERPASS_ENDPOINTS) + (ep - 1)
    /\ okCount <= 1
    /\ okCount = 1 => data = Some(provider)
    /\ attempts - okCount <= slept
    /\ slept <= 2 * (attempts - okCount)
    /\ error = "RuntimeError" => attempts = Budget /\ okCount = 0

\* a failed request is followed by a back-off and, unless the budget is
\* spent, by the next request slot; nothing is requested after a success
C9_Step ==
    /\ attempts' # attempts => attempts' = attempts + 1 /\ okCount = 0
    /\ attempts' = attempts + 1 /\ okCount' = okCount =>
          /\ slept' \in {slept + 1, slept + 2}
          /\ attempts' < Budget => pc' = "fetch"
          /\ attempts' = Budget => pc' = "raised"
    /\ okCount' = okCount + 1 => slept' = slept /\ pc' = "collect"

\* C9: one retry budget for every kind of failure, at most RETRY requests
\* per endpoint, the first success returns at once, and the call ends.
C9_SharedRetryBudget == []C9_Budget /\ [][C9_Step]_vars /\ <>Terminated

\* the third request succeeded after one transient status and one exception
C9_Witness ==
    /\ okCount = 1
    /\ attempts = 3
    /\ slept = 3
    /\ data = Some(provider)

\* what the call has computed and how it ended
Outcome ==
    [error |-> error,
     buildings_with_type |-> buildings_with_type,
     roads_raw |-> roads_raw,
     water_area |-> water_area,
     water_polygons |-> water_polygons,
     road_area_total |-> road_area_total,
     road_details |-> road_details,
     metrics |-> metrics]

Without(Dropped(_)) == [elements |-> SelectSeq(Batch, LAMBDA el : ~Dropped(el))]

\* a point without "lon" or "lat", or with a coordinate that cannot be
\* projected
Malformed(el) ==
    \E i \in 1..NPoints(el) :
        \/ "lon" \notin DOMAIN el["geometry"][i]
        \/ "lat" \notin DOMAIN el["geometry"][i]
        \/ el["geometry"][i]["lon"] # "num"
        \/ el["geometry"][i]["lat"] # "num"

\* C3: the collectors never raise for a malformed element, and the call
\* ends exactly as it does for the batch without its malformed elements.
C3_MalformedSkipped ==
    Terminated /\ okCount = 1 =>
        /\ error \notin {"KeyError", "TypeError"}
        /\ Outcome = Pipeline(Without(Malformed), buf.val, radius)

IsBuilding(el) == Get(TagsOf(el), "building", <<>>) # <<>>
IsWater(el) ==
    \/ Get(TagsOf(el), "natural", "None") = "water"
    \/ Get(TagsOf(el), "waterway", "None") = "riverbank"
IsHighway(el) == "highway" \in DOMAIN TagsOf(el)

\* an element every collector that selects it by tag turns away for its
\* vertex count (or its missing geometry)
GatedOut(el) ==
    /\ IsBuilding(el) \/ IsWater(el) \/ IsHighway(el)
    /\ IsBuilding(el) \/ IsWater(el) => NPoints(el) < 3
    /\ IsHighway(el) => NPoints(el) < 2

FeatureIds ==
    {buildings_with_type.val[i].geom.id : i \in 1..Len(buildings_with_type.val)}
        \cup {roads_raw.val[i].geom.id : i \in 1..Len(roads_raw.val)}
        \cup {water_polygons.val[i].id : i \in 1..Len(water_polygons.val)}

\* C10: an element tagged building or water with fewer than 3 points, or
\* tagged highway with fewer than 2, or without geometry, yields no feature
\* and no exception: the call ends exactly as it does for the batch without
\* these elements.
C10_VertexCountGate ==
    Terminated /\ okCount = 1 =>
        /\ Outcome = Pipeline(Without(GatedOut), buf.val, radius)
        /\ water_polygons # NoneV =>
              \A i \in 1..Len(Batch) : GatedOut(Batch[i]) => Batch[i].id \notin FeatureIds

\* a batch of a one-point building=yes element and a sound building was
\* classified and its metrics returned
C10_Witness ==
    /\ Returned
    /\ Len(Batch) = 2
    /\ GatedOut(Batch[1])
    /\ IsBuilding(Batch[1])
    /\ NPoints(Batch[1]) = 1
    /\ Len(buildings_with_type.val) = 1
    /\ metrics.val.detected_buildings = 1

\* C4: a request with radius <= 0 is refused with an invalid-input error
\* before the provider is contacted.
C4_InvalidRadiusRejected ==
    radius <= 0 =>
        /\ attempts = 0
        /\ pc # "start" => pc = "raised" /\ error = "InvalidInputError"

\* areas and radii the score is compared over
ScoreAreas == {0, 250, 400, 1571, 2000, 3000, 3142, 6000, 9000, 12568}
ScoreInputs ==
    {[building |-> b, road |-> r, water |-> w, radius |-> rad] :
        b \in ScoreAreas, r \in ScoreAreas, w \in ScoreAreas, rad \in {1, 2}}

\* used_ratio = (buildings + roads) / max(disk_area - water, 1)
UsedRatioOf(x) ==
    Frac(x.building + x.road,
         IF PiMilli * x.radius * x.radius - x.water > 1000
         THEN PiMilli * x.radius * x.radius - x.water ELSE 1000)
ScoreOf(x) == CongestionScore(UsedRatioOf(x))
LessEq(a, b) == a.n * b.d <= b.n * a.d

\* C11: once get_congestion_features has returned, the score is computed
\* without a failing division from used_ratio = (buildings + roads) /
\* max(disk_area - water, 1); it lies in [0, 10]; against the score of any
\* other non-negative areas and radius it is ordered as the used ratios are;
\* the level is HIGH iff score > 7, MEDIUM iff 4 < score <= 7, LOW iff
\* score <= 4.
C11_ScoreContract ==
    /\ metrics # NoneV => pc = "returned" /\ error = "none"
    /\ level # NoneV =>
          LET m == metrics.val
              s == congestion_score.val
              u == UsedRatioOf([building |-> m.total_building_area_m2,
                                road |-> m.total_road_area_m2,
                                water |-> m.water_area_m2,
                                radius |-> radius])
          IN  /\ used_area_ratio.val = u
              /\ 0 <= s /\ s <= 100
              /\ level.val = "HIGH" <=> s > 70
              /\ level.val = "MEDIUM" <=> (40 < s /\ s <= 70)
              /\ level.val = "LOW" <=> s <= 40
              /\ \A x \in ScoreInputs :
                    /\ LessEq(UsedRatioOf(x), u) => ScoreOf(x) <= s
                    /\ LessEq(u, UsedRatioOf(x)) => s <= ScoreOf(x)

\* with more water than the disk holds, the land is taken as 1 m2 and a
\* building of 0.4 m2 scores exactly 7.0, which is MEDIUM
C11_Witness ==
    /\ level # NoneV
    /\ metrics.val.water_area_m2 >= PiMilli * radius * radius
    /\ effective_land_area = Some(1000)
    /\ used_area_ratio = Some(Frac(400, 1000))
    /\ congestion_score = Some(70)
    /\ level = Some("MEDIUM")

\* the ways a water pass keeps: tagged natural=water or
\* waterway=riverbank, three points or more, a polygon that is valid
\* (repaired if need be) and meets the disk
WaterCandidate(el) ==
    /\ IsWater(el)
    /\ NPoints(el) >= 3
    /\ el.shape.poly \in {"valid", "repaired"}
    /\ radius > 0
    /\ el.shape.inter \in {"valid", "repaired", "invalid"}
WaterCandidates == SelectSeq(Batch, WaterCandidate)

\* the element without its water tags
Dewater(el) ==
    IF "tags" \notin DOMAIN el THEN el
    ELSE [el EXCEPT !["tags"] =
              [k \in DOMAIN el["tags"] \ {"natural", "waterway"} |-> el["tags"][k]]]
Dewatered == [elements |-> [i \in 1..Len(Batch) |-> Dewater(Batch[i])]]

\* C12: the second water pass runs exactly when the first has completed;
\* the ways that add to water_area are the ways that add a polygon to
\* water_polygons, in batch order, so water_area is the sum of the areas
\* of water_polygons and is what the metrics report; and the water counts
\* only as an exclusion: with the water tags taken off the batch, the
\* buildings, the roads and their totals are the same and the open space
\* is larger by exactly water_area.
C12_WaterPassesAgree ==
    /\ water_area = NoneV <=> water_polygons = NoneV
    /\ water_polygons # NoneV =>
          /\ \A i \in 1..Len(Batch) :
                WaterStep(Batch[i], buf.val).kind
                    = WaterPolygonStep(Batch[i], buf.val).kind
          /\ Len(water_polygons.val) = Len(WaterCandidates)
          /\ \A i \in 1..Len(water_polygons.val) :
                /\ water_polygons.val[i].id = WaterCandidates[i].id
                /\ water_polygons.val[i].area = WaterCandidates[i].shape.area
          /\ water_area.val =
                SumSeq([i \in 1..Len(water_polygons.val) |->
                            water_polygons.val[i].area])
    /\ Returned =>
          LET dry == Pipeline(Dewatered, buf.val, radius)
              m   == metrics.val
          IN  /\ m.water_area_m2 = water_area.val
              /\ dry.error = "none"
              /\ dry.water_area = Some(0)
              /\ dry.buildings_with_type = buildings_with_type
              /\ dry.road_details = road_details
              /\ dry.metrics.val.total_building_area_m2 = m.total_building_area_m2
              /\ dry.metrics.val.total_road_area_m2 = m.total_road_area_m2
              /\ dry.metrics.val.true_open_space_m2
                    = m.true_open_space_m2 + water_area.val

\* a water way whose intersection stays invalid and a building that is
\* also tagged as water were both counted by both passes
C12_Witness ==
    /\ Returned
    /\ Len(Batch) = 2
    /\ Batch[1].shape.inter = "invalid"
    /\ IsBuilding(Batch[2]) /\ IsWater(Batch[2])
    /\ Len(water_polygons.val) = 2
    /\ water_area.val = 1100
    /\ metrics.val.total_building_area_m2 = 500
    /\ metrics.val.detected_buildings = 1

RECURSIVE SumValues(_, _)
SumValues(f, keys) ==
    IF keys = {} THEN 0
    ELSE LET k == CHOOSE k \in keys : TRUE
         IN  f[k] + SumValues(f, keys \ {k})

\* C13: in every returned metrics record detected_buildings is the length
\* of the returned buildings list, the keys of building_types_area are the
\* type tags occurring in that list, each value is the summed area of the
\* buildings of that type, the values add up to total_building_area_m2, and
\* that total counts every kept building in full, overlapping or not.
C13_BuildingBookkeeping ==
    Returned =>
        LET m   == metrics.val
            bld == buildings_with_type.val
        IN  /\ m.detected_buildings = Len(bld)
            /\ DOMAIN m.building_types_area = {bld[i].btype : i \in 1..Len(bld)}
            /\ \A t \in DOMAIN m.building_types_area :
                  m.building_types_area[t] =
                      BuildingAreaOf(SelectSeq(bld, LAMBDA b : b.btype = t))
            /\ SumValues(m.building_types_area, DOMAIN m.building_types_area)
                  = m.total_building_area_m2
            /\ Len(bld) = Len(BuildingCandidates)
            /\ m.total_building_area_m2 =
                  SumSeq([i \in 1..Len(BuildingCandidates) |->
                              BuildingCandidates[i].shape.area])

\* the same building way delivered twice was counted twice, under one type
C13_Witness ==
    /\ Returned
    /\ Len(Batch) = 2
    /\ Batch[1] = Batch[2]
    /\ metrics.val.detected_buildings = 2
    /\ DOMAIN metrics.val.building_types_area = {S_prefix \o S_house}
    /\ metrics.val.building_types_area[S_prefix \o S_house] = 5000
    /\ metrics.val.total_building_area_m2 = 5000

=============================================================================
